---- MODULE Spec2Model ----
(***************************************************************************)
(* A model of the Sudoku library: the backtracking solver (solve_puzzle,   *)
(* solve_sudoku_from), the validator (check_puzzle) and the response       *)
(* handler of the verification client (SudokuHandler::write and the        *)
(* counting loop of verify_puzzles_multi_poll).                            *)
(*                                                                         *)
(* A board is a function [0..8 -> [0..8 -> 0..9]]; 0 stands for None and   *)
(* d in 1..9 for Some(d).  Bytes are numbers in 0..255.                    *)
(***************************************************************************)
EXTENDS Integers, Sequences, FiniteSets

VARIABLES
    input,       \* the board as handed to the operation (history)
    board,       \* the board the operation works on
    row_vals,    \* solve_puzzle's row bitsets
    col_vals,    \* solve_puzzle's column bitsets
    grid_vals,   \* solve_puzzle's subgrid bitsets
    pc,          \* where the running operation stands
    scan,        \* row-major index of the next cell of the initial scan
    stack,       \* the active calls of solve_sudoku_from, innermost last
    ret,         \* value a call of solve_sudoku_from just returned ("none": none pending)
    last_entry,  \* the board on entry to the call that returned last (history)
    solve_ret,   \* what solve_puzzle hands back to its caller
    chk_result,  \* what check_puzzle returned
    result,      \* result[h]: SudokuHandler.result of handle h
    body,        \* body[h]: the bytes delivered to handle h so far (history)
    nwrites,     \* nwrites[h]: number of write callbacks handle h received
    removed,     \* number of handles the counting loop has removed
    verified     \* the counter `verified` of verify_puzzles_multi_poll

vars == <<input, board, row_vals, col_vals, grid_vals, pc, scan, stack, ret,
          last_entry, solve_ret, chk_result, result, body, nwrites, removed,
          verified>>

solverVars == <<row_vals, col_vals, grid_vals, scan, stack, ret, last_entry,
                solve_ret>>
verifyVars == <<result, body, nwrites, removed, verified>>

(***************************************************************************)
(* Dimensions of the program and bounds of the model.                      *)
(***************************************************************************)
N == 9

\* number of cells of ScatterOrder that an input may have blanked
MaxScatter == 5
\* write callbacks per handle
MaxWrites == 2
\* bytes per write callback
MaxChunkLen == 2
\* puzzles handed to verify_puzzles_multi_poll
NumPuzzles == 2

Idx == 0 .. (N - 1)
Digits == 1 .. N
Cells == Idx \X Idx

\* row-major index of a cell
Pos(r, c) == r * N + c

EmptyBoard == [r \in Idx |-> [c \in Idx |-> 0]]
NoVals == [k \in Idx |-> [i \in Idx |-> FALSE]]

BoardOf(rows) == [r \in Idx |-> [c \in Idx |-> rows[r + 1][c + 1]]]

(***************************************************************************)
(* grid_num: the statically allocated table of subgrid numbers.            *)
(***************************************************************************)
GRID_NUMS ==
    << <<0, 0, 0, 1, 1, 1, 2, 2, 2>>,
       <<0, 0, 0, 1, 1, 1, 2, 2, 2>>,
       <<0, 0, 0, 1, 1, 1, 2, 2, 2>>,
       <<3, 3, 3, 4, 4, 4, 5, 5, 5>>,
       <<3, 3, 3, 4, 4, 4, 5, 5, 5>>,
       <<3, 3, 3, 4, 4, 4, 5, 5, 5>>,
       <<6, 6, 6, 7, 7, 7, 8, 8, 8>>,
       <<6, 6, 6, 7, 7, 7, 8, 8, 8>>,
       <<6, 6, 6, 7, 7, 7, 8, 8, 8>> >>

grid_num(r, c) == GRID_NUMS[r + 1][c + 1]

(***************************************************************************)
(* The pieces of solve_puzzle and solve_sudoku_from.                       *)
(***************************************************************************)

\* the initial scan's match board[r][c] { Some(d) => ..., None => continue }
is_clue(b, r, c) == b[r][c] # 0

\* the search's match board[r][c] { Some(_d) => ..., None => ... }
\* (faulty variant: every cell is taken for empty)
is_some_mut(b, r, c) == FALSE
is_some(b, r, c) == b[r][c] # 0

\* the duplicate test of the initial scan
\* (faulty variant: the box is not looked at)
scan_conflict_mut(rv, cv, gv, r, c, i) == rv[r][i] \/ cv[c][i]
scan_conflict(rv, cv, gv, r, c, i) ==
    rv[r][i] \/ cv[c][i] \/ gv[grid_num(r, c)][i]

\* the test that makes the search skip a digit
\* (faulty variant: the column is not looked at)
digit_used_mut(rv, cv, gv, r, c, i) == rv[r][i] \/ gv[grid_num(r, c)][i]
digit_used(rv, cv, gv, r, c, i) ==
    rv[r][i] \/ cv[c][i] \/ gv[grid_num(r, c)][i]

\* for i in 0usize..=8: the index tried by iteration number k
\* (faulty variant: the digits are tried from 9 down)
loop_index_mut(k) == (N - 1) - k
loop_index(k) == k

\* the loop is over once 9 iterations are done
loop_done(k) == k > N - 1

\* board[r][c] = NonZeroU8::new((i + 1) as u8)
place(b, r, c, i) == [b EXCEPT ![r][c] = (i + 1) % 256]

\* board[r][c] = None
\* (faulty variant: the cell is not emptied)
unplace_mut(b, r, c) == b
unplace(b, r, c) == [b EXCEPT ![r][c] = 0]

\* vals[k][i] = true
set_val(vals, k, i) == [vals EXCEPT ![k][i] = TRUE]

\* vals[k][i] = false
\* (faulty variant: the bit is not cleared)
clear_val_mut(vals, k, i) == vals
clear_val(vals, k, i) == [vals EXCEPT ![k][i] = FALSE]

\* c + 1 < board[0].len()
has_next_col(c) == c + 1 < N

\* r + 1 < board.len()
\* (faulty variant: off by one)
has_next_row_mut(r) == r + 1 <= N
has_next_row(r) == r + 1 < N

\* solve_puzzle drops the value of solve_sudoku_from and returns ()
\* (variant that would report the search's result)
solve_puzzle_value_mut(found) == IF found = "true" THEN "unit" ELSE "no_solution"
solve_puzzle_value(found) == "unit"

\* a fresh activation of solve_sudoku_from(board, r, c, ...)
Frame(r, c, b) == [r |-> r, c |-> c, k |-> 0, at |-> "match", entry |-> b]

Top == stack[Len(stack)]
Pop == SubSeq(stack, 1, Len(stack) - 1)
SetTop(f) == [stack EXCEPT ![Len(stack)] = f]

\* an index outside the array makes the access panic
InBounds(r, c) == r \in Idx /\ c \in Idx

\* the position solve_sudoku_from recurses into after cell (r, c); <<>> when
\* (r, c) is the last cell and the call returns true instead
NextPos(r, c) ==
    IF has_next_col(c) THEN <<r, c + 1>>
    ELSE IF has_next_row(r) THEN <<r + 1, 0>>
    ELSE <<>>

(***************************************************************************)
(* solve_puzzle: the initial scan, one cell per step.                      *)
(***************************************************************************)
ScanCell ==
    /\ pc = "scan"
    /\ scan < N * N
    /\ LET r == scan \div N
           c == scan % N
           d == board[r][c]
           g == grid_num(r, c)
           i == d - 1
       IN  IF is_clue(board, r, c)
           THEN IF scan_conflict(row_vals, col_vals, grid_vals, r, c, i)
                THEN /\ pc' = "panicked"
                     /\ UNCHANGED <<row_vals, col_vals, grid_vals, scan>>
                ELSE /\ row_vals' = set_val(row_vals, r, i)
                     /\ col_vals' = set_val(col_vals, c, i)
                     /\ grid_vals' = set_val(grid_vals, g, i)
                     /\ scan' = scan + 1
                     /\ pc' = pc
           ELSE /\ scan' = scan + 1
                /\ UNCHANGED <<row_vals, col_vals, grid_vals, pc>>
    /\ UNCHANGED <<input, board, stack, ret, last_entry, solve_ret, chk_result>>
    /\ UNCHANGED verifyVars

\* solve_sudoku_from(board, 0, 0, ...) once the scan is through
StartSearch ==
    /\ pc = "scan"
    /\ scan = N * N
    /\ pc' = "search"
    /\ stack' = <<Frame(0, 0, board)>>
    /\ UNCHANGED <<input, board, row_vals, col_vals, grid_vals, scan, ret,
                   last_entry, solve_ret, chk_result>>
    /\ UNCHANGED verifyVars

(***************************************************************************)
(* solve_sudoku_from, one step per match, loop iteration, call and return. *)
(***************************************************************************)

\* match board[r][c]: the Some branch recurses or returns true, the None
\* branch enters the loop
EnterCell ==
    /\ pc = "search"
    /\ stack # <<>>
    /\ Top.at = "match"
    /\ IF ~InBounds(Top.r, Top.c)
       THEN /\ pc' = "index_panic"
            /\ UNCHANGED <<stack, ret, last_entry>>
       ELSE IF is_some(board, Top.r, Top.c)
       THEN LET nxt == NextPos(Top.r, Top.c)
            IN  IF nxt # <<>>
                THEN /\ stack' = Append(SetTop([Top EXCEPT !.at = "ret_some"]),
                                        Frame(nxt[1], nxt[2], board))
                     /\ UNCHANGED <<pc, ret, last_entry>>
                ELSE /\ stack' = Pop
                     /\ ret' = "true"
                     /\ last_entry' = Top.entry
                     /\ pc' = pc
       ELSE /\ stack' = SetTop([Top EXCEPT !.at = "loop"])
            /\ UNCHANGED <<pc, ret, last_entry>>
    /\ UNCHANGED <<input, board, row_vals, col_vals, grid_vals, scan,
                   solve_ret, chk_result>>
    /\ UNCHANGED verifyVars

\* if row_vals[r][i] || col_vals[c][i] || grid_vals[g][i] { continue; }
LoopSkip ==
    /\ pc = "search"
    /\ stack # <<>>
    /\ Top.at = "loop"
    /\ ~loop_done(Top.k)
    /\ digit_used(row_vals, col_vals, grid_vals, Top.r, Top.c, loop_index(Top.k))
    /\ stack' = SetTop([Top EXCEPT !.k = Top.k + 1])
    /\ UNCHANGED <<input, board, row_vals, col_vals, grid_vals, pc, scan, ret,
                   last_entry, solve_ret, chk_result>>
    /\ UNCHANGED verifyVars

\* place digit i + 1, set the three bits, then recurse or return true
LoopPlace ==
    /\ pc = "search"
    /\ stack # <<>>
    /\ Top.at = "loop"
    /\ ~loop_done(Top.k)
    /\ LET r == Top.r
           c == Top.c
           g == grid_num(r, c)
           i == loop_index(Top.k)
           nxt == NextPos(r, c)
       IN  /\ ~digit_used(row_vals, col_vals, grid_vals, r, c, i)
           /\ board' = place(board, r, c, i)
           /\ row_vals' = set_val(row_vals, r, i)
           /\ col_vals' = set_val(col_vals, c, i)
           /\ grid_vals' = set_val(grid_vals, g, i)
           /\ IF nxt # <<>>
              THEN /\ stack' = Append(SetTop([Top EXCEPT !.at = "ret_none"]),
                                      Frame(nxt[1], nxt[2], board'))
                   /\ UNCHANGED <<ret, last_entry>>
              ELSE /\ stack' = Pop
                   /\ ret' = "true"
                   /\ last_entry' = Top.entry
    /\ UNCHANGED <<input, pc, scan, solve_ret, chk_result>>
    /\ UNCHANGED verifyVars

\* the loop ran out of digits: return false
LoopExhausted ==
    /\ pc = "search"
    /\ stack # <<>>
    /\ Top.at = "loop"
    /\ loop_done(Top.k)
    /\ stack' = Pop
    /\ ret' = "false"
    /\ last_entry' = Top.entry
    /\ UNCHANGED <<input, board, row_vals, col_vals, grid_vals, pc, scan,
                   solve_ret, chk_result>>
    /\ UNCHANGED verifyVars

\* Some branch: return solve_sudoku_from(...), whatever it returned
ReturnSome ==
    /\ pc = "search"
    /\ stack # <<>>
    /\ Top.at = "ret_some"
    /\ stack' = Pop
    /\ ret' = ret
    /\ last_entry' = Top.entry
    /\ UNCHANGED <<input, board, row_vals, col_vals, grid_vals, pc, scan,
                   solve_ret, chk_result>>
    /\ UNCHANGED verifyVars

\* None branch: if solve_sudoku_from(...) { return true; }
ReturnTrue ==
    /\ pc = "search"
    /\ stack # <<>>
    /\ Top.at = "ret_none"
    /\ ret = "true"
    /\ stack' = Pop
    /\ ret' = "true"
    /\ last_entry' = Top.entry
    /\ UNCHANGED <<input, board, row_vals, col_vals, grid_vals, pc, scan,
                   solve_ret, chk_result>>
    /\ UNCHANGED verifyVars

\* None branch: the call returned false, so undo the placement and go on
\* with the next digit
Retract ==
    /\ pc = "search"
    /\ stack # <<>>
    /\ Top.at = "ret_none"
    /\ ret = "false"
    /\ LET r == Top.r
           c == Top.c
           g == grid_num(r, c)
           i == loop_index(Top.k)
       IN  /\ board' = unplace(board, r, c)
           /\ row_vals' = clear_val(row_vals, r, i)
           /\ col_vals' = clear_val(col_vals, c, i)
           /\ grid_vals' = clear_val(grid_vals, g, i)
    /\ stack' = SetTop([Top EXCEPT !.at = "loop", !.k = Top.k + 1])
    /\ ret' = "none"
    /\ UNCHANGED <<input, pc, scan, last_entry, solve_ret, chk_result>>
    /\ UNCHANGED verifyVars

\* the outermost call is back: solve_puzzle returns
SolveReturn ==
    /\ pc = "search"
    /\ stack = <<>>
    /\ pc' = "returned"
    /\ solve_ret' = solve_puzzle_value(ret)
    /\ UNCHANGED <<input, board, row_vals, col_vals, grid_vals, scan, stack,
                   ret, last_entry, chk_result>>
    /\ UNCHANGED verifyVars

(***************************************************************************)
(* The boards the solver is started on.                                    *)
(***************************************************************************)

\* the completion the solver finds for the empty board
Sol1 ==
    BoardOf(<< <<1, 2, 3, 4, 5, 6, 7, 8, 9>>,
               <<4, 5, 6, 7, 8, 9, 1, 2, 3>>,
               <<7, 8, 9, 1, 2, 3, 4, 5, 6>>,
               <<2, 1, 4, 3, 6, 5, 8, 9, 7>>,
               <<3, 6, 5, 8, 9, 7, 2, 1, 4>>,
               <<8, 9, 7, 2, 1, 4, 3, 6, 5>>,
               <<5, 3, 1, 6, 4, 2, 9, 7, 8>>,
               <<6, 4, 2, 9, 7, 8, 5, 3, 1>>,
               <<9, 7, 8, 5, 3, 1, 6, 4, 2>> >>)

\* Sol1 with the digits 1 and 2 exchanged in rows 0 and 3, columns 0 and 1
Sol2 ==
    [Sol1 EXCEPT ![0][0] = 2, ![0][1] = 1, ![3][0] = 1, ![3][1] = 2]

Solutions == {Sol1, Sol2}

\* cells that are blanked one by one; the first four and the next four each
\* form a rectangle whose two digits can be exchanged
ScatterOrder ==
    << <<0, 0>>, <<0, 1>>, <<3, 0>>, <<3, 1>>,
       <<0, 4>>, <<0, 5>>, <<3, 4>>, <<3, 5>>, <<8, 8>> >>

Min(a, b) == IF a < b THEN a ELSE b

ScatterCells ==
    {ScatterOrder[j] : j \in 1 .. Min(MaxScatter, Len(ScatterOrder))}

\* the last n rows, and the first n rows
LastRows(n) == {cell \in Cells : cell[1] >= N - n}
FirstRows(n) == {cell \in Cells : cell[1] < n}

Blank(b, S) ==
    [r \in Idx |-> [c \in Idx |-> IF <<r, c>> \in S THEN 0 ELSE b[r][c]]]

\* Sol1 with its rows 5 to 8 emptied
HalfBlank == Blank(Sol1, {cell \in Cells : cell[1] >= 5})

\* cells of HalfBlank that get a clue of any digit: the result has a
\* repeated digit, or is consistent with or without a completion
PatchCells == {<<4, 4>>, <<5, 5>>, <<5, 6>>, <<6, 3>>, <<8, 8>>}

SolverInputs ==
    {Blank(s, S) : s \in Solutions, S \in SUBSET ScatterCells}
    \cup {Blank(Sol1, LastRows(n)) : n \in 0 .. N}
    \cup {Blank(Sol2, FirstRows(n)) : n \in 1 .. N}
    \cup {[HalfBlank EXCEPT ![cell[1]][cell[2]] = d] :
              cell \in PatchCells, d \in Digits}

Init ==
    /\ input \in SolverInputs
    /\ board = input
    /\ row_vals = NoVals
    /\ col_vals = NoVals
    /\ grid_vals = NoVals
    /\ pc = "scan"
    /\ scan = 0
    /\ stack = <<>>
    /\ ret = "none"
    /\ last_entry = input
    /\ solve_ret = "none"
    /\ chk_result = FALSE
    /\ result = <<>>
    /\ body = <<>>
    /\ nwrites = <<>>
    /\ removed = 0
    /\ verified = 0

Next ==
    \/ ScanCell
    \/ StartSearch
    \/ EnterCell
    \/ LoopSkip
    \/ LoopPlace
    \/ LoopExhausted
    \/ ReturnSome
    \/ ReturnTrue
    \/ Retract
    \/ SolveReturn

Spec == Init /\ [][Next]_vars

(***************************************************************************)
(* check_puzzle: three passes (rows, columns, 3x3 boxes), each scanning a  *)
(* unit cell by cell with a fresh array of nine flags and giving up at the *)
(* first None or repeated digit.                                           *)
(***************************************************************************)
RECURSIVE scan_unit(_, _, _)
scan_unit(cells, j, seen) ==
    IF j > Len(cells) THEN TRUE
    ELSE IF cells[j] = 0 THEN FALSE
    ELSE IF seen[cells[j] - 1] THEN FALSE
    ELSE scan_unit(cells, j + 1, [seen EXCEPT ![cells[j] - 1] = TRUE])

NoFlags == [i \in Idx |-> FALSE]

\* for r in 0..9 { for c in 0..9 { ... } }
rows_valid(p) ==
    \A r \in Idx : scan_unit([j \in 1 .. N |-> p[r][j - 1]], 1, NoFlags)

\* for c in 0..9 { for r in 0..9 { ... } }
cols_valid(p) ==
    \A c \in Idx : scan_unit([j \in 1 .. N |-> p[j - 1][c]], 1, NoFlags)

\* (0..7).step_by(3)
BoxStarts == {x \in 0 .. 6 : x % 3 = 0}

\* for i, j in the box starts: r from i to i + 2, c from j to j + 2
boxes_valid(p) ==
    \A i \in BoxStarts, j \in BoxStarts :
        scan_unit([m \in 1 .. N |-> p[i + ((m - 1) \div 3)][j + ((m - 1) % 3)]],
                  1, NoFlags)

\* (faulty variant: the boxes are not scanned)
check_puzzle_mut(p) == rows_valid(p) /\ cols_valid(p)
check_puzzle(p) == rows_valid(p) /\ cols_valid(p) /\ boxes_valid(p)

\* the caller calls check_puzzle(&board) and keeps the answer
CheckPuzzle ==
    /\ pc = "check"
    /\ chk_result' = check_puzzle(board)
    /\ pc' = "checked"
    /\ UNCHANGED <<input, board>>
    /\ UNCHANGED solverVars
    /\ UNCHANGED verifyVars

\* boards check_puzzle is tried on: two valid grids, a Latin square whose
\* boxes are wrong, grids with equal rows or equal columns, and each of
\* them with one cell emptied or set to any digit
Latin == [r \in Idx |-> [c \in Idx |-> ((r + c) % N) + 1]]
EqualRows == [r \in Idx |-> [c \in Idx |-> c + 1]]
EqualCols == [r \in Idx |-> [c \in Idx |-> r + 1]]
CheckBases == {Sol1, Sol2, Latin, EqualRows, EqualCols}

CheckInputs ==
    CheckBases
    \cup {[b EXCEPT ![cell[1]][cell[2]] = v] :
              b \in CheckBases, cell \in Cells, v \in 0 .. N}

InitCheck ==
    /\ input \in CheckInputs
    /\ board = input
    /\ row_vals = NoVals
    /\ col_vals = NoVals
    /\ grid_vals = NoVals
    /\ pc = "check"
    /\ scan = 0
    /\ stack = <<>>
    /\ ret = "none"
    /\ last_entry = input
    /\ solve_ret = "none"
    /\ chk_result = FALSE
    /\ result = <<>>
    /\ body = <<>>
    /\ nwrites = <<>>
    /\ removed = 0
    /\ verified = 0

NextCheck == CheckPuzzle

SpecCheck == InitCheck /\ [][NextCheck]_vars

(***************************************************************************)
(* The verification client: SudokuHandler::write and the loop of           *)
(* verify_puzzles_multi_poll that counts the verified puzzles.             *)
(***************************************************************************)

\* the bytes a response is made of here: '0', '1', and the two bytes of
\* U+00E9, of which the second alone or the first alone is not UTF-8
Bytes == {48, 49, 195, 169}

IsCont(b) == 128 <= b /\ b <= 191

\* std::str::from_utf8(data).is_ok(): data, read from byte j on, is a run of
\* well-formed UTF-8 sequences
RECURSIVE utf8_from(_, _)
utf8_from(data, j) ==
    IF j > Len(data) THEN TRUE
    ELSE LET b == data[j]
             more(n) == /\ j + n <= Len(data)
                        /\ \A m \in 1 .. n : IsCont(data[j + m])
         IN  IF b < 128 THEN utf8_from(data, j + 1)
             ELSE IF 194 <= b /\ b <= 223
                  THEN more(1) /\ utf8_from(data, j + 2)
             ELSE IF 224 <= b /\ b <= 239
                  THEN /\ more(2)
                       /\ (b = 224 => data[j + 1] >= 160)
                       /\ (b = 237 => data[j + 1] <= 159)
                       /\ utf8_from(data, j + 3)
             ELSE IF 240 <= b /\ b <= 244
                  THEN /\ more(3)
                       /\ (b = 240 => data[j + 1] >= 144)
                       /\ (b = 244 => data[j + 1] <= 143)
                       /\ utf8_from(data, j + 4)
             ELSE FALSE

from_utf8_ok(data) == utf8_from(data, 1)

\* resp == "1"
is_one(resp) == resp = <<49>>

\* SudokuHandler::write: the value of self.result after the callback
write_result(old, data) ==
    IF from_utf8_ok(data) THEN is_one(data) ELSE old

Handles == 1 .. NumPuzzles

Chunks == UNION {[1 .. n -> Bytes] : n \in 0 .. MaxChunkLen}

\* curl hands handle h the next piece of its response body
Write(h, data) ==
    /\ pc = "perform"
    /\ nwrites[h] < MaxWrites
    /\ result' = [result EXCEPT ![h] = write_result(result[h], data)]
    /\ body' = [body EXCEPT ![h] = body[h] \o data]
    /\ nwrites' = [nwrites EXCEPT ![h] = nwrites[h] + 1]
    /\ UNCHANGED <<input, board, pc, chk_result, removed, verified>>
    /\ UNCHANGED solverVars

\* multi.perform() reports no transfer left running
PerformDone ==
    /\ pc = "perform"
    /\ pc' = "count"
    /\ UNCHANGED <<input, board, chk_result>>
    /\ UNCHANGED solverVars
    /\ UNCHANGED verifyVars

\* for owned_easy in owned_easies: if easy.get_ref().result { verified += 1 }
RemoveHandle ==
    /\ pc = "count"
    /\ removed < NumPuzzles
    /\ removed' = removed + 1
    /\ verified' = IF result[removed + 1] THEN verified + 1 ELSE verified
    /\ pc' = IF removed + 1 = NumPuzzles THEN "done" ELSE pc
    /\ UNCHANGED <<input, board, chk_result, result, body, nwrites>>
    /\ UNCHANGED solverVars

\* every handle was made by SudokuHandler::new (result: false) and added
InitVerify ==
    /\ input = EmptyBoard
    /\ board = EmptyBoard
    /\ row_vals = NoVals
    /\ col_vals = NoVals
    /\ grid_vals = NoVals
    /\ pc = "perform"
    /\ scan = 0
    /\ stack = <<>>
    /\ ret = "none"
    /\ last_entry = EmptyBoard
    /\ solve_ret = "none"
    /\ chk_result = FALSE
    /\ result = [h \in Handles |-> FALSE]
    /\ body = [h \in Handles |-> <<>>]
    /\ nwrites = [h \in Handles |-> 0]
    /\ removed = 0
    /\ verified = 0

NextVerify ==
    \/ \E h \in Handles, data \in Chunks : Write(h, data)
    \/ PerformDone
    \/ RemoveHandle

SpecVerify == InitVerify /\ [][NextVerify]_vars

(***************************************************************************)
(* What the claims speak of, stated without the code's bitsets or scans.   *)
(***************************************************************************)
At(b, cell) == b[cell[1]][cell[2]]

RowUnit(r) == {<<r, c>> : c \in Idx}
ColUnit(c) == {<<r, c>> : r \in Idx}
BoxUnit(i, j) == {<<r, c>> : r \in i .. (i + 2), c \in j .. (j + 2)}
BoxCorners == {0, 3, 6}
Units ==
    {RowUnit(r) : r \in Idx} \cup {ColUnit(c) : c \in Idx}
    \cup {BoxUnit(i, j) : i \in BoxCorners, j \in BoxCorners}

Filled(b) == \A cell \in Cells : At(b, cell) # 0

\* every row, column and box holds each digit exactly once
ValidComplete(b) ==
    \A u \in Units : \A d \in Digits :
        Cardinality({cell \in u : At(b, cell) = d}) = 1

\* the digits standing in a set of cells
DigitsIn(b, u) == {At(b, x) : x \in u} \ {0}

\* two equal digits share a row, a column or a box: some unit has more
\* filled cells than distinct digits
HasDuplicate(b) ==
    \E u \in Units :
        Cardinality(DigitsIn(b, u)) # Cardinality({x \in u : At(b, x) # 0})

\* the cells of box k, boxes numbered row by row from the top left
BoxCells(k) == BoxUnit(3 * (k \div 3), 3 * (k % 3))

\* s agrees with b on every cell b has filled
Extends(s, b) == \A cell \in Cells : At(b, cell) # 0 => At(s, cell) = At(b, cell)

KnownCompletions(b) == {s \in Solutions : ValidComplete(s) /\ Extends(s, b)}

Blanks(b) == {cell \in Cells : At(b, cell) = 0}

\* digits no clue in the cell's row, column or box excludes
Cands(b, cell) ==
    {d \in Digits :
        \A u \in Units : cell \in u => \A x \in u : At(b, x) # d}

\* the empty cell that comes first in row-major order
FirstBlank(b) ==
    CHOOSE x \in Blanks(b) :
        \A y \in Blanks(b) : Pos(x[1], x[2]) <= Pos(y[1], y[2])

\* every valid completion of b: fill the first empty cell with each digit
\* its clues leave open, and so on
RECURSIVE AllCompletions(_)
AllCompletions(b) ==
    IF Blanks(b) = {}
    THEN IF ValidComplete(b) THEN {b} ELSE {}
    ELSE LET x == FirstBlank(b)
         IN  UNION {AllCompletions([b EXCEPT ![x[1]][x[2]] = d]) :
                        d \in Cands(b, x)}

\* b comes no later than s in the order of their row-major digit sequences
LexLeq(b, s) ==
    \/ b = s
    \/ \E p \in Cells :
          /\ At(b, p) < At(s, p)
          /\ \A q \in Cells : Pos(q[1], q[2]) < Pos(p[1], p[2]) => At(b, q) = At(s, q)

\* boards with at most this many empty cells have all completions listed
MaxEnum == 9
FewBlanks(b) == Cardinality(Blanks(b)) <= MaxEnum

Done == pc \in {"returned", "panicked"}

(***************************************************************************)
(* The claims.                                                             *)
(***************************************************************************)

\* an input known to have a valid completion: one of Solutions completes
\* it (the empty board and every blanking of a solution are of this kind),
\* or it has few empty cells and listing its completions finds one
Solvable(b) ==
    \/ KnownCompletions(b) # {}
    \/ FewBlanks(b) /\ AllCompletions(b) # {}

\* C1: when the input has a valid completion, solve_puzzle returns with the
\* search successful, the board full, check_puzzle(board) true and every
\* row, column and box a permutation of 1..9.
C1_Solved ==
    (pc = "returned" /\ Solvable(input))
        => /\ ret = "true"
           /\ Filled(board)
           /\ check_puzzle(board)
           /\ ValidComplete(board)

C1_Witness ==
    /\ pc = "returned"
    /\ input = EmptyBoard
    /\ ret = "true"
    /\ check_puzzle(board)

\* C2: in every state of the scan and the search, and after the return,
\* each cell that held a digit in the input still holds that digit.
C2_CluesKept ==
    \A cell \in Cells : At(input, cell) # 0 => At(board, cell) = At(input, cell)

C2_Witness ==
    /\ pc = "returned"
    /\ ret = "true"
    /\ Cardinality(Blanks(input)) = N
    /\ Blanks(board) = {}

\* C3: whenever a call of solve_sudoku_from has returned false, the board
\* equals the board on entry to that call; when the outermost call returned
\* false, the board equals the input.
C3_Restored ==
    /\ ret = "false" => board = last_entry
    /\ (pc = "returned" /\ ret = "false") => board = input

C3_Witness ==
    /\ pc = "returned"
    /\ ret = "false"
    /\ ~HasDuplicate(input)
    /\ KnownCompletions(input) = {}

\* C4: solve_puzzle panics exactly on the inputs with a repeated digit in a
\* row, column or box; it does so during the scan, with the board as given
\* and solve_sudoku_from never called.
C4_InvalidInput ==
    /\ pc = "panicked"
         => /\ HasDuplicate(input)
            /\ board = input
            /\ stack = <<>>
            /\ ret = "none"
    /\ pc \in {"search", "returned"} => ~HasDuplicate(input)

C4_Witness ==
    /\ pc = "panicked"
    /\ \E x \in Cells, y \in Cells :
          /\ x # y
          /\ At(input, x) # 0
          /\ At(input, x) = At(input, y)
          /\ grid_num(x[1], x[2]) = grid_num(y[1], y[2])
          /\ x[1] # y[1]
          /\ x[2] # y[2]

\* C5 as claimed: after an unsuccessful search the caller of solve_puzzle
\* gets something else than after a successful one.
C5_Reported ==
    (pc = "returned" /\ ret = "false") => solve_ret # solve_puzzle_value("true")

\* C5 amended: solve_puzzle hands back the same unit value whether or not
\* the search succeeded; an unsuccessful search shows only in the board,
\* which is the input again and fails check_puzzle, while after a
\* successful one check_puzzle holds.
C5_OnlyTheBoardTells ==
    pc = "returned"
        => /\ solve_ret = "unit"
           /\ ret = "false" => (board = input /\ ~check_puzzle(board))
           /\ ret = "true" => check_puzzle(board)

C5_Witness ==
    /\ pc = "returned"
    /\ ret = "false"
    /\ solve_ret = "unit"
    /\ ~check_puzzle(board)

\* C6: check_puzzle answers true exactly for the boards that are full and
\* have each digit once in every row, column and box; so it answers false
\* for a board with an empty cell or a repeated digit; the board is left
\* as it was.
C6_CheckPuzzle ==
    pc = "checked"
        => /\ chk_result <=> ValidComplete(input)
           /\ (~Filled(input) \/ HasDuplicate(input)) => ~chk_result
           /\ board = input

C6_Witness ==
    /\ pc = "checked"
    /\ ~chk_result
    /\ Filled(input)
    /\ rows_valid(input)
    /\ cols_valid(input)

\* C7 as claimed: once the handles are counted, a handle's result is true
\* exactly when the bytes delivered to it make up "1", and verified counts
\* exactly those handles.
C7_ExactlyOne ==
    pc = "done"
        => /\ \A h \in Handles : result[h] <=> is_one(body[h])
           /\ verified = Cardinality({h \in Handles : is_one(body[h])})

\* C8: a successful search leaves the completion that is least in the
\* row-major order of digits: least among all completions when the input
\* has few empty cells, and no later than any known completion otherwise.
C8_LexLeast ==
    (pc = "returned" /\ ret = "true")
        => /\ FewBlanks(input)
                => /\ board \in AllCompletions(input)
                   /\ \A s \in AllCompletions(input) : LexLeq(board, s)
           /\ \A s \in KnownCompletions(input) : LexLeq(board, s)

C8_Witness ==
    /\ pc = "returned"
    /\ ret = "true"
    /\ FewBlanks(input)
    /\ Cardinality(AllCompletions(input)) > 1
    /\ board = Sol1

\* C9: from the end of the scan on, a bit of row_vals, col_vals or
\* grid_vals is set exactly when its digit stands in that row, column or
\* box of the board, and no digit stands twice in a row, column or box.
C9_Lockstep ==
    pc \in {"search", "returned"}
        => /\ \A k \in Idx :
                 LET inRow == DigitsIn(board, RowUnit(k))
                     inCol == DigitsIn(board, ColUnit(k))
                     inBox == DigitsIn(board, BoxCells(k))
                 IN  \A i \in Idx :
                         /\ row_vals[k][i] <=> (i + 1) \in inRow
                         /\ col_vals[k][i] <=> (i + 1) \in inCol
                         /\ grid_vals[k][i] <=> (i + 1) \in inBox
           /\ ~HasDuplicate(board)

C9_Witness ==
    /\ pc = "search"
    /\ stack # <<>>
    /\ Top.at = "loop"
    /\ Top.k > 0
    /\ board # input
    /\ \E j \in 1 .. Len(stack) : stack[j].at = "ret_none"

\* the calls on the stack are at the positions 0, 1, 2, ... in row-major
\* order, all on the board, and no access left the board
C10_Bounded ==
    /\ pc # "index_panic"
    /\ Len(stack) <= N * N
    /\ \A j \in 1 .. Len(stack) :
          /\ InBounds(stack[j].r, stack[j].c)
          /\ Pos(stack[j].r, stack[j].c) = j - 1

\* C10: solve_puzzle ends (returned or panicked) on every input, the
\* recursion is never deeper than 81 and each call is at the position after
\* its caller's.
C10_Terminates == [](C10_Bounded) /\ <>Done

C10_Witness ==
    /\ pc = "search"
    /\ Len(stack) = N * N
    /\ Top.r = N - 1
    /\ Top.c = N - 1
    /\ Top.at = "loop"

\* solve_puzzle is one thread running to its end: a step that can be taken
\* is taken
SpecLive == Spec /\ WF_vars(Next)

====
